---- MODULE Spec2Model ----
(***************************************************************************)
(* Model of src/main.py: a personal finance ledger kept in two files,      *)
(* finances.csv (the store) and last_id.txt (the counter), driven by an    *)
(* interactive menu loop.  Text is modelled as a sequence of one-character *)
(* strings so that str(), int() and the newline translation of a text-mode *)
(* read are computed character by character.                               *)
(***************************************************************************)
EXTENDS Integers, Sequences, FiniteSets, TLC

VARIABLES
    store,        \* finances.csv: [exists, header, rows]
    lastIdFile,   \* last_id.txt: [exists, text]
    pc,           \* pc[s]: position of session s in main / add_entry / edit_entry
    choice,       \* choice[s]: main's local `choice`
    add_id,       \* add_id[s]: add_entry's local `entry_id` (an int)
    entry_id,     \* entry_id[s]: the id text typed for search / edit
    finances,     \* finances[s]: the local list `finances`
    entry,        \* entry[s]: the Optional record `entry` (<<>> is None)
    new_fields,   \* new_fields[s]: edit_entry's locals new_date .. new_description
    msg,          \* msg[s]: the last message printed by session s
    nadd          \* number of completed add operations (history)

vars == <<store, lastIdFile, pc, choice, add_id, entry_id, finances, entry, new_fields,
          msg, nadd>>

----------------------------------------------------------------------------
(* Bounds *)

\* largest id an add may be started for
MaxId == 3
\* an add is started only while the store holds fewer rows than this
MaxRecords == 3

Sessions == {1, 2}

----------------------------------------------------------------------------
(* Text helpers *)

CR == "\r"
LF == "\n"

\* str(n) for n >= 0, digit by digit
RECURSIVE Str(_)
Str(n) == IF n < 10 THEN <<ToString(n)>>
          ELSE Str(n \div 10) \o <<ToString(n % 10)>>

DigitVal(c) == CHOOSE d \in 0..9 : ToString(d) = c

\* int(text) for a non-empty text of decimal digits
RECURSIVE ParseInt(_)
ParseInt(t) == IF Len(t) = 1 THEN DigitVal(t[1])
               ELSE 10 * ParseInt(SubSeq(t, 1, Len(t) - 1)) + DigitVal(t[Len(t)])

\* open(..., mode='r') without newline='': "\r\n" and "\r" are read as "\n"
RECURSIVE UniversalNewlines(_)
UniversalNewlines(t) ==
    IF t = <<>> THEN <<>>
    ELSE IF t[1] = CR
         THEN IF Len(t) >= 2 /\ t[2] = LF
              THEN <<LF>> \o UniversalNewlines(SubSeq(t, 3, Len(t)))
              ELSE <<LF>> \o UniversalNewlines(Tail(t))
         ELSE <<t[1]>> \o UniversalNewlines(Tail(t))

----------------------------------------------------------------------------
(* Records and the two files *)

\* the dict built at lines 88-95 from the int id and the five prompted texts
NewEntry(n, in) ==
    [id |-> Str(n), date |-> in[1], type |-> in[2], amount |-> in[3],
     category |-> in[4], description |-> in[5]]

\* one row as csv.DictReader returns it from the text-mode file
ReadRow(r) ==
    [id |-> UniversalNewlines(r.id), date |-> UniversalNewlines(r.date),
     type |-> UniversalNewlines(r.type), amount |-> UniversalNewlines(r.amount),
     category |-> UniversalNewlines(r.category),
     description |-> UniversalNewlines(r.description)]

\* read_data() on the file f: the rows after the header, [] for an empty file
read_data(f) ==
    IF f.header THEN [i \in 1..Len(f.rows) |-> ReadRow(f.rows[i])] ELSE <<>>

\* the file left by write_data(fin): open(mode='w') truncates, finances[0]
\* raises IndexError on an empty list before anything is written
write_data(fin) ==
    IF fin = <<>> THEN [exists |-> TRUE, header |-> FALSE, rows |-> <<>>]
    ELSE [exists |-> TRUE, header |-> TRUE, rows |-> fin]

check_and_create_file_truncate(f) ==
    [exists |-> TRUE, header |-> TRUE, rows |-> <<>>]

\* the file left by check_and_create_file()
check_and_create_file(f) ==
    IF ~f.exists THEN [exists |-> TRUE, header |-> TRUE, rows |-> <<>>] ELSE f

save_last_id_stale(n) == [exists |-> TRUE, text |-> Str(n - 1)]

\* the file left by save_last_id(n)
save_last_id(n) == [exists |-> TRUE, text |-> Str(n)]

\* load_last_id() on the counter file c
load_last_id(c) == IF c.exists THEN ParseInt(c.text) ELSE 1

get_next_id_noinc(c) == load_last_id(c)

get_next_id(c) == load_last_id(c) + 1

FirstIndex_last(fin, id) ==
    IF \E i \in 1..Len(fin) : fin[i].id = id
    THEN CHOOSE i \in 1..Len(fin) :
            fin[i].id = id /\ \A j \in (i + 1)..Len(fin) : fin[j].id # id
    ELSE 0

\* index of the first row of fin whose id is id, 0 when there is none
FirstIndex(fin, id) ==
    IF \E i \in 1..Len(fin) : fin[i].id = id
    THEN CHOOSE i \in 1..Len(fin) :
            fin[i].id = id /\ \A j \in 1..(i - 1) : fin[j].id # id
    ELSE 0

search_by_id_first(f, id) ==
    LET fin == read_data(f)
    IN  IF fin = <<>> THEN <<>> ELSE <<fin[1]>>

\* search_by_id(id) on the file f: <<record>> for the first match, <<>> for None
search_by_id(f, id) ==
    LET fin == read_data(f)
        i == FirstIndex(fin, id)
    IN  IF i = 0 THEN <<>> ELSE <<fin[i]>>

Override_always(new, old) == new

\* `new if new else old` (lines 140-148)
Override(new, old) == IF new # <<>> THEN new ELSE old

\* the dict `entry` after the five prompts of edit_entry
EditedEntry(e, in) ==
    [id |-> e.id, date |-> Override(in[1], e.date), type |-> Override(in[2], e.type),
     amount |-> Override(in[3], e.amount), category |-> Override(in[4], e.category),
     description |-> Override(in[5], e.description)]

ReplaceFirst_append(fin, id, e) == Append(fin, e)

\* the loop of lines 150-153: the first row with the id is replaced by e
ReplaceFirst(fin, id, e) ==
    LET i == FirstIndex(fin, id)
    IN  IF i = 0 THEN fin ELSE [fin EXCEPT ![i] = e]

Dispatch_swapped(c) ==
    CASE c = <<"1">> -> "add_input"
      [] c = <<"2">> -> "edit_input"
      [] c = <<"3">> -> "find_input"
      [] c = <<"4">> -> "exit"
      [] OTHER -> "menu"

\* the branch of main's if/elif chain taken for the text typed at the menu
Dispatch(c) ==
    CASE c = <<"1">> -> "add_input"
      [] c = <<"2">> -> "find_input"
      [] c = <<"3">> -> "edit_input"
      [] c = <<"4">> -> "exit"
      [] OTHER -> "menu"

----------------------------------------------------------------------------
(* Inputs *)

Choices == {<<"1">>, <<"2">>, <<"3">>, <<"4">>, <<"5">>, <<>>}

AddInputs ==
    { <<<<"d">>, <<"i">>, <<"1">>, <<"s">>, <<"J">>>>,
      <<<<"e">>, <<"x">>, <<"7">>, <<"f">>, <<"a", CR, "b">>>> }

EditInputs ==
    { <<<<>>, <<>>, <<>>, <<>>, <<>>>>,
      <<<<>>, <<>>, <<"9">>, <<>>, <<>>>>,
      <<<<"g">>, <<>>, <<>>, <<>>, <<"c", CR>>>> }

IdInputs == {Str(n) : n \in 2..MaxId} \cup {<<"0", "2">>, <<>>}

\* the inputs of the two-session specification
ConcChoices == {<<"1">>, <<"3">>}

ConcAddInputs == { <<<<"d">>, <<"i">>, <<"1">>, <<"s">>, <<"J">>>> }

ConcEditInputs == { <<<<>>, <<>>, <<"9">>, <<>>, <<>>>> }

ConcIdInputs == {Str(2), Str(3)}

----------------------------------------------------------------------------
(* Initial state: an empty working directory, no session started *)

Init ==
    /\ store = [exists |-> FALSE, header |-> FALSE, rows |-> <<>>]
    /\ lastIdFile = [exists |-> FALSE, text |-> <<>>]
    /\ pc = [s \in Sessions |-> "start"]
    /\ choice = [s \in Sessions |-> <<>>]
    /\ add_id = [s \in Sessions |-> 0]
    /\ entry_id = [s \in Sessions |-> <<>>]
    /\ finances = [s \in Sessions |-> <<>>]
    /\ entry = [s \in Sessions |-> <<>>]
    /\ new_fields = [s \in Sessions |-> <<>>]
    /\ msg = [s \in Sessions |-> "none"]
    /\ nadd = 0

\* the locals of add_entry / edit_entry / the find branch go out of use
ClearLocals(s) ==
    /\ add_id' = [add_id EXCEPT ![s] = 0]
    /\ entry_id' = [entry_id EXCEPT ![s] = <<>>]
    /\ finances' = [finances EXCEPT ![s] = <<>>]
    /\ entry' = [entry EXCEPT ![s] = <<>>]
    /\ new_fields' = [new_fields EXCEPT ![s] = <<>>]

----------------------------------------------------------------------------
(* main *)

\* line 165: check_and_create_file(), then the loop is entered
Start(s) ==
    /\ pc[s] = "start"
    /\ store' = check_and_create_file(store)
    /\ msg' = [msg EXCEPT ![s] = IF store.exists THEN "exists" ELSE "created"]
    /\ pc' = [pc EXCEPT ![s] = "menu"]
    /\ UNCHANGED <<lastIdFile, choice, add_id, entry_id, finances, entry, new_fields, nadd>>

\* lines 172-190: one menu input c; '1' runs add_entry up to its first prompt
\* (line 81, get_next_id)
MenuChoice(s, c) ==
    /\ pc[s] = "menu"
    /\ Dispatch(c) = "add_input" =>
          /\ get_next_id(lastIdFile) <= MaxId
          /\ Len(store.rows) < MaxRecords
    /\ choice' = [choice EXCEPT ![s] = c]
    /\ pc' = [pc EXCEPT ![s] = Dispatch(c)]
    /\ add_id' = [add_id EXCEPT ![s] =
                    IF Dispatch(c) = "add_input" THEN get_next_id(lastIdFile) ELSE 0]
    /\ msg' = [msg EXCEPT ![s] = IF Dispatch(c) = "menu" THEN "invalid" ELSE "prompt"]
    /\ UNCHANGED <<store, lastIdFile, entry_id, finances, entry, new_fields, nadd>>

----------------------------------------------------------------------------
(* add_entry *)

AddInput_noappend(s, in) ==
    /\ pc[s] = "add_input"
    /\ finances' = [finances EXCEPT ![s] = read_data(store)]
    /\ pc' = [pc EXCEPT ![s] = "add_write"]
    /\ UNCHANGED <<store, lastIdFile, choice, add_id, entry_id, entry, new_fields, msg, nadd>>

AddInput_prepend(s, in) ==
    /\ pc[s] = "add_input"
    /\ finances' = [finances EXCEPT ![s] =
                      <<NewEntry(add_id[s], in)>> \o read_data(store)]
    /\ pc' = [pc EXCEPT ![s] = "add_write"]
    /\ UNCHANGED <<store, lastIdFile, choice, add_id, entry_id, entry, new_fields, msg, nadd>>

\* lines 82-98: the five prompts, new_entry, read_data() and the append
AddInput(s, in) ==
    /\ pc[s] = "add_input"
    /\ finances' = [finances EXCEPT ![s] =
                      Append(read_data(store), NewEntry(add_id[s], in))]
    /\ pc' = [pc EXCEPT ![s] = "add_write"]
    /\ UNCHANGED <<store, lastIdFile, choice, add_id, entry_id, entry, new_fields, msg, nadd>>

AddWrite_savesCounter(s) ==
    /\ pc[s] = "add_write"
    /\ store' = write_data(finances[s])
    /\ lastIdFile' = save_last_id(add_id[s])
    /\ pc' = [pc EXCEPT ![s] = "add_save"]
    /\ UNCHANGED <<choice, add_id, entry_id, finances, entry, new_fields, msg, nadd>>

AddWrite_checked(s) ==
    /\ pc[s] = "add_write"
    /\ store' = IF \E i \in 1..Len(read_data(store)) :
                        read_data(store)[i].id = Str(add_id[s])
                THEN store
                ELSE write_data(finances[s])
    /\ pc' = [pc EXCEPT ![s] = "add_save"]
    /\ UNCHANGED <<lastIdFile, choice, add_id, entry_id, finances, entry, new_fields, msg, nadd>>

\* line 99: write_data(finances)
AddWrite(s) ==
    /\ pc[s] = "add_write"
    /\ store' = write_data(finances[s])
    /\ pc' = [pc EXCEPT ![s] = "add_save"]
    /\ UNCHANGED <<lastIdFile, choice, add_id, entry_id, finances, entry, new_fields, msg, nadd>>

AddSave_bump(s) ==
    /\ pc[s] = "add_save"
    /\ lastIdFile' = save_last_id(get_next_id(lastIdFile))
    /\ msg' = [msg EXCEPT ![s] = "added"]
    /\ pc' = [pc EXCEPT ![s] = "menu"]
    /\ nadd' = nadd + 1
    /\ ClearLocals(s)
    /\ UNCHANGED <<store, choice>>

AddSave_nosave(s) ==
    /\ pc[s] = "add_save"
    /\ msg' = [msg EXCEPT ![s] = "added"]
    /\ pc' = [pc EXCEPT ![s] = "menu"]
    /\ nadd' = nadd + 1
    /\ ClearLocals(s)
    /\ UNCHANGED <<store, lastIdFile, choice>>

\* lines 100-101: save_last_id(entry_id), the message, back to the menu
AddSave(s) ==
    /\ pc[s] = "add_save"
    /\ lastIdFile' = save_last_id(add_id[s])
    /\ msg' = [msg EXCEPT ![s] = "added"]
    /\ pc' = [pc EXCEPT ![s] = "menu"]
    /\ nadd' = nadd + 1
    /\ ClearLocals(s)
    /\ UNCHANGED <<store, choice>>

----------------------------------------------------------------------------
(* the find branch of main *)

\* lines 177-178: the id prompt and search_by_id
FindInput(s, id) ==
    /\ pc[s] = "find_input"
    /\ entry_id' = [entry_id EXCEPT ![s] = id]
    /\ entry' = [entry EXCEPT ![s] = search_by_id(store, id)]
    /\ pc' = [pc EXCEPT ![s] = "find_print"]
    /\ UNCHANGED <<store, lastIdFile, choice, add_id, finances, new_fields, msg, nadd>>

\* lines 179-183: the record is printed, or "not found" and show_all_ids()
FindPrint(s) ==
    /\ pc[s] = "find_print"
    /\ msg' = [msg EXCEPT ![s] = IF entry[s] # <<>> THEN "found" ELSE "not_found"]
    /\ pc' = [pc EXCEPT ![s] = "menu"]
    /\ ClearLocals(s)
    /\ UNCHANGED <<store, lastIdFile, choice, nadd>>

----------------------------------------------------------------------------
(* edit_entry *)

\* lines 185, 135: the id prompt and finances = read_data()
EditRead(s, id) ==
    /\ pc[s] = "edit_input"
    /\ entry_id' = [entry_id EXCEPT ![s] = id]
    /\ finances' = [finances EXCEPT ![s] = read_data(store)]
    /\ pc' = [pc EXCEPT ![s] = "edit_search"]
    /\ UNCHANGED <<store, lastIdFile, choice, add_id, entry, new_fields, msg, nadd>>

EditSearch_writes(s) ==
    /\ pc[s] = "edit_search"
    /\ LET e == search_by_id(store, entry_id[s])
       IN  IF e # <<>>
           THEN /\ entry' = [entry EXCEPT ![s] = e]
                /\ msg' = [msg EXCEPT ![s] = "current"]
                /\ pc' = [pc EXCEPT ![s] = "edit_prompt"]
                /\ UNCHANGED <<store, add_id, entry_id, finances, new_fields>>
           ELSE /\ store' = write_data(finances[s])
                /\ msg' = [msg EXCEPT ![s] = "not_found"]
                /\ pc' = [pc EXCEPT ![s] = "menu"]
                /\ ClearLocals(s)
    /\ UNCHANGED <<lastIdFile, choice, nadd>>

\* lines 136-138, 157-159: entry = search_by_id(entry_id), a second read of the
\* file; None prints "not found" and the ids and returns to the menu
EditSearch(s) ==
    /\ pc[s] = "edit_search"
    /\ LET e == search_by_id(store, entry_id[s])
       IN  IF e # <<>>
           THEN /\ entry' = [entry EXCEPT ![s] = e]
                /\ msg' = [msg EXCEPT ![s] = "current"]
                /\ pc' = [pc EXCEPT ![s] = "edit_prompt"]
                /\ UNCHANGED <<add_id, entry_id, finances, new_fields>>
           ELSE /\ msg' = [msg EXCEPT ![s] = "not_found"]
                /\ pc' = [pc EXCEPT ![s] = "menu"]
                /\ ClearLocals(s)
    /\ UNCHANGED <<store, lastIdFile, choice, nadd>>

\* lines 139-153: the five prompts, the overrides and the replacement in finances
EditPrompt(s, in) ==
    /\ pc[s] = "edit_prompt"
    /\ LET e == EditedEntry(entry[s][1], in)
       IN  /\ new_fields' = [new_fields EXCEPT ![s] = in]
           /\ entry' = [entry EXCEPT ![s] = <<e>>]
           /\ finances' = [finances EXCEPT ![s] = ReplaceFirst(finances[s], entry_id[s], e)]
    /\ pc' = [pc EXCEPT ![s] = "edit_write"]
    /\ UNCHANGED <<store, lastIdFile, choice, add_id, entry_id, msg, nadd>>

\* lines 155-156: write_data(finances); an empty list raises IndexError after
\* the file was truncated and the process ends
EditWrite(s) ==
    /\ pc[s] = "edit_write"
    /\ store' = write_data(finances[s])
    /\ msg' = [msg EXCEPT ![s] = IF finances[s] = <<>> THEN "IndexError" ELSE "updated"]
    /\ pc' = [pc EXCEPT ![s] = IF finances[s] = <<>> THEN "crashed" ELSE "menu"]
    /\ ClearLocals(s)
    /\ UNCHANGED <<lastIdFile, choice, nadd>>

----------------------------------------------------------------------------
(* Failures: nothing in main.py catches an exception *)

InOperation(s) ==
    pc[s] \in {"add_input", "add_write", "add_save", "find_input", "find_print",
               "edit_input", "edit_search", "edit_prompt", "edit_write"}

\* the process ends inside an operation with both files as they are: it is
\* killed, input() raises EOFError, or the open() of a read raises
Abort(s) ==
    /\ InOperation(s)
    /\ pc' = [pc EXCEPT ![s] = "crashed"]
    /\ msg' = [msg EXCEPT ![s] = "error"]
    /\ ClearLocals(s)
    /\ UNCHANGED <<store, lastIdFile, choice, nadd>>

\* the files write_data(fin) can leave when the write fails part-way: the file
\* was truncated by open(mode='w'), then the header and some of the rows got out
PartialWrites(fin) ==
    {[exists |-> TRUE, header |-> FALSE, rows |-> <<>>]}
        \cup {[exists |-> TRUE, header |-> TRUE, rows |-> SubSeq(fin, 1, k)] :
                k \in 0..Len(fin)}

\* lines 99, 155: write_data fails with an I/O error
StoreWriteFail(s) ==
    /\ pc[s] \in {"add_write", "edit_write"}
    /\ store' \in PartialWrites(finances[s])
    /\ pc' = [pc EXCEPT ![s] = "crashed"]
    /\ msg' = [msg EXCEPT ![s] = "error"]
    /\ ClearLocals(s)
    /\ UNCHANGED <<lastIdFile, choice, nadd>>

\* the program is started again after it ended
Restart(s) ==
    /\ pc[s] \in {"exit", "crashed"}
    /\ pc' = [pc EXCEPT ![s] = "start"]
    /\ choice' = [choice EXCEPT ![s] = <<>>]
    /\ msg' = [msg EXCEPT ![s] = "none"]
    /\ UNCHANGED <<store, lastIdFile, add_id, entry_id, finances, entry, new_fields, nadd>>

----------------------------------------------------------------------------
(* Specifications *)

Session(s) ==
    \/ Start(s)
    \/ \E c \in Choices : MenuChoice(s, c)
    \/ \E in \in AddInputs : AddInput(s, in)
    \/ AddWrite(s)
    \/ AddSave(s)
    \/ \E id \in IdInputs : FindInput(s, id)
    \/ FindPrint(s)
    \/ \E id \in IdInputs : EditRead(s, id)
    \/ EditSearch(s)
    \/ \E in \in EditInputs : EditPrompt(s, in)
    \/ EditWrite(s)

\* one session, no failures
Next == Session(1)

Spec == Init /\ [][Next]_vars

\* one process at a time, with failures and restarts
NextCrash ==
    \/ Session(1)
    \/ Abort(1)
    \/ StoreWriteFail(1)
    \/ Restart(1)

SpecCrash == Init /\ [][NextCrash]_vars

\* two sessions adding and editing on the same two files, no failures other
\* than the code's own
ConcSession(s) ==
    \/ Start(s)
    \/ \E c \in ConcChoices : MenuChoice(s, c)
    \/ \E in \in ConcAddInputs : AddInput(s, in)
    \/ AddWrite(s)
    \/ AddSave(s)
    \/ \E id \in ConcIdInputs : EditRead(s, id)
    \/ EditSearch(s)
    \/ \E in \in ConcEditInputs : EditPrompt(s, in)
    \/ EditWrite(s)

NextConc == \E s \in Sessions : ConcSession(s)

SpecConc == Init /\ [][NextConc]_vars

----------------------------------------------------------------------------
(* The store and the counter as the program reads them *)

\* the Store: the sequence of records read_data() returns
Rows == read_data(store)

Ids(fin) == [i \in 1..Len(fin) |-> fin[i].id]

\* the Counter: the value load_last_id() returns
Counter == load_last_id(lastIdFile)

IsPrefix(a, b) == Len(a) <= Len(b) /\ \A i \in 1..Len(a) : a[i] = b[i]

HasId(fin, id) == \E i \in 1..Len(fin) : fin[i].id = id

AllBlank == <<<<>>, <<>>, <<>>, <<>>, <<>>>>

AddStates == {"add_input", "add_write", "add_save"}
FindStates == {"find_input", "find_print"}
EditStates == {"edit_input", "edit_search", "edit_prompt", "edit_write"}

----------------------------------------------------------------------------
(* C1: from a header-only store and no counter file, in one session without
   failures, once N adds have completed the store holds exactly N records and
   their ids in store order are "2", "3", ..., str(N+1) (edits, which keep
   ids, included). *)
C1_AddsAssignConsecutiveIds ==
    pc[1] \in {"menu", "exit"} =>
        /\ Len(Rows) = nadd
        /\ \A i \in 1..Len(Rows) : Rows[i].id = <<ToString(i + 1)>>

C1_Witness ==
    /\ pc[1] = "menu"
    /\ msg[1] = "added"
    /\ nadd = 2
    /\ Ids(Rows) = << <<"2">>, <<"3">> >>

(* C2: an edit of an id present in the store changes exactly the overridden
   fields of the first record with that id: each non-blank input becomes the
   field's value, each blank input keeps the prior value, the id, the position,
   every other record, the order and the counter file are unchanged. *)
C2_EditChangesOnlyOverriddenFields ==
    [][(pc[1] = "edit_write" /\ pc'[1] = "menu") =>
        LET old == Rows
            new == Rows'
            in == new_fields[1]
            i == CHOOSE k \in 0..Len(old) :
                    /\ k > 0 => old[k].id = entry_id[1]
                    /\ \A j \in 1..Len(old) : old[j].id = entry_id[1] => k > 0 /\ k <= j
            Kept(typed, before, after) ==
                IF typed = <<>> THEN after = before
                ELSE after = UniversalNewlines(typed)
        IN  /\ i > 0
            /\ Len(new) = Len(old)
            /\ \A j \in 1..Len(old) : j # i => new[j] = old[j]
            /\ new[i].id = old[i].id
            /\ Kept(in[1], old[i].date, new[i].date)
            /\ Kept(in[2], old[i].type, new[i].type)
            /\ Kept(in[3], old[i].amount, new[i].amount)
            /\ Kept(in[4], old[i].category, new[i].category)
            /\ Kept(in[5], old[i].description, new[i].description)
            /\ lastIdFile' = lastIdFile]_vars

C2_Witness ==
    /\ pc[1] = "menu"
    /\ msg[1] = "updated"
    /\ Len(Rows) >= 2
    /\ Rows[2].amount = <<"9">>
    /\ Rows[2].description = <<"a", LF, "b">>
    /\ Rows[1].amount # <<"9">>

(* C3: an edit of an id present in the store with all five inputs blank leaves
   the store, as read_data returns it, equal to the store before: the target
   record, every other record and the order are unchanged. *)
C3_BlankEditKeepsStore ==
    [][(pc[1] = "edit_write" /\ pc'[1] = "menu" /\ new_fields[1] = AllBlank) =>
        /\ Rows' = Rows
        /\ store'.exists /\ store'.header]_vars

C3_Witness ==
    /\ pc[1] = "menu"
    /\ msg[1] = "updated"
    /\ Len(Rows) >= 2
    /\ \A i \in 1..Len(Rows) : Rows[i].amount # <<"9">> /\ Rows[i].date # <<"g">>
    /\ \E i \in 1..Len(Rows) : Rows[i].description = <<"a", LF, "b">>

(* C4: the find operation never changes the store file or the counter file,
   and for an id that no record of the store has, search_by_id returns None and
   "not found" is printed. *)
C4_FindIsReadOnly ==
    [][pc[1] \in FindStates =>
        /\ store' = store
        /\ lastIdFile' = lastIdFile
        /\ (pc'[1] = "find_print" /\ ~HasId(Rows, entry_id'[1])) => entry'[1] = <<>>
        /\ (pc'[1] = "menu" /\ entry[1] = <<>>) => msg'[1] = "not_found"]_vars

C4_Witness ==
    /\ pc[1] = "menu"
    /\ choice[1] = <<"2">>
    /\ msg[1] = "not_found"
    /\ Len(Rows) >= 1

(* C5: an edit of an id that no record of the store has prints "not found" and
   returns to the menu without reaching the field prompts; the store file and
   the counter file are unchanged by every step of it. *)
C5_EditAbsentIdWritesNothing ==
    [][/\ pc[1] \in {"edit_input", "edit_search"} =>
            store' = store /\ lastIdFile' = lastIdFile
       /\ (pc[1] = "edit_search" /\ pc'[1] # "crashed" /\ ~HasId(Rows, entry_id[1])) =>
            /\ pc'[1] = "menu"
            /\ msg'[1] = "not_found"
            /\ new_fields'[1] = <<>>]_vars

C5_Witness ==
    /\ pc[1] = "menu"
    /\ choice[1] = <<"3">>
    /\ msg[1] = "not_found"
    /\ Len(Rows) >= 1

(* C6: in one session from a header-only store and no counter file, without
   failures, no two records of the store have the same id, in every state. *)
C6_IdsUnique ==
    \A i, j \in 1..Len(Rows) : i # j => Rows[i].id # Rows[j].id

C6_Witness ==
    /\ pc[1] = "menu"
    /\ msg[1] = "updated"
    /\ nadd = 2
    /\ Len(Rows) = 2

(* C7: in one session without failures every step keeps the ids already in the
   store as a prefix of the ids after it; find and edit steps keep the number
   of records, and the store write of an add appends exactly one record, the
   new one, as the last. *)
C7_AppendOnly ==
    [][/\ IsPrefix(Ids(Rows), Ids(Rows'))
       /\ pc[1] \in FindStates \cup EditStates => Len(Rows') = Len(Rows)
       /\ pc[1] \in {"start", "menu", "add_input", "add_save"} => Len(Rows') = Len(Rows)
       /\ (pc[1] = "add_write" /\ pc'[1] = "add_save") =>
            /\ Len(Rows') = Len(Rows) + 1
            /\ Rows'[Len(Rows')].id = <<ToString(add_id[1])>>
            /\ \A i \in 1..Len(Rows) : Rows'[i] = Rows[i]]_vars

C7_Witness ==
    /\ pc[1] = "add_save"
    /\ Len(Rows) = 2
    /\ choice[1] = <<"1">>

(* C8, as claimed: every add that ends, by completing or by aborting on a
   failure, leaves the counter one above its value before the add. *)
C8_CounterAdvancesEvenOnFailure ==
    [][(pc[1] \in AddStates /\ pc'[1] \in {"menu", "crashed"}) =>
            Counter' = (add_id[1] - 1) + 1]_vars

(* C8, amended: an add that completes leaves the counter one above its value
   before the add; an add that aborts, on a failure of the store read or of the
   store write or anywhere else before save_last_id, leaves the counter file
   as it was; no other step of an add writes the counter file. *)
C8_CounterAdvancesOnCompletedAdd ==
    [][pc[1] \in AddStates =>
        /\ (pc[1] = "add_save" /\ pc'[1] = "menu") =>
                Counter' = Counter + 1 /\ Counter' = add_id[1]
        /\ ~(pc[1] = "add_save" /\ pc'[1] = "menu") => lastIdFile' = lastIdFile]_vars

C8_Witness ==
    /\ pc[1] = "crashed"
    /\ choice[1] = <<"1">>
    /\ nadd = 1
    /\ Counter = 2
    /\ Len(Rows) = 0

\* the number of rows session b loaded for the write it is about to do
SnapshotLen(b) ==
    IF pc[b] = "add_write" THEN Len(finances[b]) - 1 ELSE Len(finances[b])

\* session a is back at the menu after an add whose row reached the store
\* after session b loaded it
AddCompletedSinceLoad(a, b) ==
    /\ a # b
    /\ pc[a] = "menu"
    /\ msg[a] = "added"
    /\ Len(Rows) > SnapshotLen(b)

(* C9, as claimed: with two sessions, when a session B performs its store
   write (of an add or of an edit) after the other session A has completed an
   add since B loaded the store, the store afterwards holds exactly B's list,
   so A's record is gone, and no error is reported to either session. *)
C9_LastWriterWinsSilently ==
    [][\A a, b \in Sessions :
        (/\ pc[b] \in {"add_write", "edit_write"}
         /\ pc'[b] # pc[b]
         /\ AddCompletedSinceLoad(a, b)) =>
            /\ Rows' = read_data(write_data(finances[b]))
            /\ Len(Rows') < Len(Rows) + (IF pc[b] = "add_write" THEN 1 ELSE 0)
            /\ pc'[b] # "crashed"
            /\ msg'[b] \notin {"error", "IndexError"}
            /\ pc'[a] = pc[a] /\ msg'[a] = msg[a]]_vars

(* C10: from the menu the inputs '1', '2', '3', '4' enter add, find, edit and
   exit and any other input stays in the menu, with the store and the counter
   file unchanged; the steps of an add, a find and an edit follow one another
   and end in the menu, none of them is stuck; exit is entered only from the
   menu on '4' and nothing changes after it. *)
C10_MenuStateMachine ==
    /\ [][/\ pc[1] = "menu" =>
                /\ store' = store /\ lastIdFile' = lastIdFile
                /\ choice'[1] = <<"1">> => pc'[1] = "add_input"
                /\ choice'[1] = <<"2">> => pc'[1] = "find_input"
                /\ choice'[1] = <<"3">> => pc'[1] = "edit_input"
                /\ choice'[1] = <<"4">> => pc'[1] = "exit"
                /\ choice'[1] \notin {<<"1">>, <<"2">>, <<"3">>, <<"4">>} =>
                        pc'[1] = "menu" /\ msg'[1] = "invalid"
          /\ pc[1] = "add_input" => pc'[1] = "add_write"
          /\ pc[1] = "add_write" => pc'[1] = "add_save"
          /\ pc[1] = "add_save" => pc'[1] = "menu"
          /\ pc[1] = "find_input" => pc'[1] = "find_print"
          /\ pc[1] = "find_print" => pc'[1] = "menu"
          /\ pc[1] = "edit_input" => pc'[1] = "edit_search"
          /\ pc[1] = "edit_search" => pc'[1] \in {"edit_prompt", "menu"}
          /\ pc[1] = "edit_prompt" => pc'[1] = "edit_write"
          /\ pc[1] = "edit_write" => pc'[1] = "menu"
          /\ pc'[1] = "exit" => pc[1] = "menu" /\ choice'[1] = <<"4">>
          /\ pc[1] = "exit" => FALSE]_vars
    /\ [](InOperation(1) => ENABLED Next)

C10_Witness ==
    /\ pc[1] = "exit"
    /\ nadd >= 1
    /\ \E i \in 1..Len(Rows) : Rows[i].amount = <<"9">>

(* C11: check_and_create_file creates a store with the header and no records
   when the file is absent, leaves an existing file exactly as it is, and a
   second call changes nothing; ending a session (by exit or by a failure) and
   starting the program again keeps every record, their order and the counter
   file. *)
C11_EnsureStoreKeepsRecords ==
    [][/\ (pc[1] = "start" /\ pc'[1] = "menu") =>
            /\ ~store.exists =>
                    store'.exists /\ store'.header /\ store'.rows = <<>> /\ Rows' = <<>>
            /\ store.exists => store' = store /\ Rows' = Rows
            /\ check_and_create_file(store') = store'
            /\ lastIdFile' = lastIdFile
       /\ pc[1] \in {"exit", "crashed"} =>
            store' = store /\ lastIdFile' = lastIdFile]_vars

C11_Witness ==
    /\ pc[1] = "menu"
    /\ msg[1] = "exists"
    /\ Len(Rows) >= 2
    /\ Counter = 3

\* max(int(r.id) for r in fin), for a non-empty fin
MaxIntId(fin) ==
    CHOOSE m \in {ParseInt(fin[i].id) : i \in 1..Len(fin)} :
        \A i \in 1..Len(fin) : ParseInt(fin[i].id) <= m

(* C12: in one session from a header-only store and no counter file, without
   failures, at the menu after at least one completed add the counter file
   holds the largest integer id of the store; until the first add completes
   the counter file is absent and load_last_id returns 1, and the store is
   empty until the first add writes it. *)
C12_CounterIsMaxId ==
    /\ (pc[1] \in {"menu", "exit"} /\ nadd >= 1) =>
            /\ lastIdFile.exists
            /\ Rows # <<>>
            /\ Counter = MaxIntId(Rows)
    /\ nadd = 0 =>
            /\ ~lastIdFile.exists
            /\ Counter = 1
            /\ pc[1] # "add_save" => Rows = <<>>

C12_Witness ==
    /\ pc[1] = "menu"
    /\ nadd = 2
    /\ Counter = 3
    /\ msg[1] = "not_found"

(* C13: an add writes the store before the counter; when the process ends
   after write_data and before save_last_id the store holds the new record as
   its last row while the counter keeps its old value; the next add takes its
   id from the counter alone, so it gets the id of that record, and its store
   write appends a second record with the same id, nothing rejecting it; when
   it completes the counter equals that id. *)
C13_CrashBeforeCounterWriteCollides ==
    [][/\ (pc[1] = "add_save" /\ pc'[1] = "crashed") =>
            /\ store' = store /\ lastIdFile' = lastIdFile
            /\ Rows' # <<>>
            /\ Rows'[Len(Rows')].id = <<ToString(add_id[1])>>
            /\ Counter' = add_id[1] - 1
            /\ HasId(Rows', <<ToString(Counter' + 1)>>)
       /\ (pc[1] = "menu" /\ pc'[1] = "add_input") => add_id'[1] = Counter + 1
       /\ (pc[1] = "add_write" /\ pc'[1] = "add_save") =>
            /\ Len(Rows') = Len(Rows) + 1
            /\ \A i \in 1..Len(Rows) : Rows'[i] = Rows[i]
            /\ Rows'[Len(Rows')].id = <<ToString(add_id[1])>>
            /\ HasId(Rows, <<ToString(add_id[1])>>) =>
                    \E i \in 1..Len(Rows) : Rows'[i].id = Rows'[Len(Rows')].id
       /\ (pc[1] = "add_save" /\ pc'[1] = "menu") => Counter' = add_id[1]]_vars

C13_Witness ==
    /\ pc[1] = "menu"
    /\ msg[1] = "added"
    /\ nadd = 1
    /\ Ids(Rows) = << <<"2">>, <<"2">> >>
    /\ Counter = 2

\* the positions of the records of fin with the id, and the lowest of them
Positions(fin, id) == {i \in 1..Len(fin) : fin[i].id = id}

Lowest(fin, id) == CHOOSE i \in Positions(fin, id) : \A j \in Positions(fin, id) : i <= j

(* C14: on a store with several records of the same id, search_by_id, in the
   find branch and in edit_entry, returns the record at the lowest position
   with that id, and a completed edit applies the typed overrides to that
   record only: every later record with the same id and every other record
   read back as before. *)
C14_FirstOccurrenceWins ==
    [][/\ (/\ pc[1] = "find_input" /\ pc'[1] = "find_print"
           /\ Cardinality(Positions(Rows, entry_id'[1])) >= 2) =>
                entry'[1] = <<Rows[Lowest(Rows, entry_id'[1])]>>
       /\ (/\ pc[1] = "edit_search" /\ pc'[1] # "crashed"
           /\ Cardinality(Positions(Rows, entry_id[1])) >= 2) =>
                /\ pc'[1] = "edit_prompt"
                /\ entry'[1] = <<Rows[Lowest(Rows, entry_id[1])]>>
       /\ (/\ pc[1] = "edit_write" /\ pc'[1] = "menu"
           /\ Cardinality(Positions(Rows, entry_id[1])) >= 2) =>
                LET k == Lowest(Rows, entry_id[1])
                IN  /\ Len(Rows') = Len(Rows)
                    /\ \A j \in 1..Len(Rows) : j # k => Rows'[j] = Rows[j]
                    /\ Rows'[k].id = entry_id[1]
                    /\ new_fields[1][3] # <<>> =>
                            Rows'[k].amount = UniversalNewlines(new_fields[1][3])
                    /\ new_fields[1][1] # <<>> =>
                            Rows'[k].date = UniversalNewlines(new_fields[1][1])]_vars

C14_Witness ==
    /\ pc[1] = "menu"
    /\ msg[1] = "updated"
    /\ Len(Rows) = 3
    /\ Rows[1].id = Rows[2].id /\ Rows[2].id = Rows[3].id
    /\ Rows[1].amount = <<"9">>
    /\ Rows[2].amount # <<"9">> /\ Rows[3].amount # <<"9">>
    /\ Rows[2].date # <<"g">> /\ Rows[3].date # <<"g">>

(* C15: with one process at a time, whenever add_entry or edit_entry is about
   to call write_data the list it passes holds at least one record, so the
   IndexError of write_data on an empty list is never raised; an edit reaches
   its prompts only with a non-empty list, on an empty store it takes the
   not-found branch. *)
C15_NeverWritesEmptyList ==
    /\ pc[1] \in {"add_write", "edit_prompt", "edit_write"} => finances[1] # <<>>
    /\ msg[1] # "IndexError"

C15_Witness ==
    /\ pc[1] = "edit_write"
    /\ Len(finances[1]) = 1
    /\ Len(Rows) = 1
    /\ new_fields[1] = AllBlank

(* C16: with two sessions the id of an add is taken from the counter when the
   add starts and the counter is written only by the add's last step, so a
   session that starts an add while the other is inside an add that took its
   id from the same counter value gets the same id; a store write of an add
   that follows the other's write, its read having seen it, appends its record
   to the store, which then holds two records with that id, and the completed
   add leaves the counter equal to that id. *)
C16_ConcurrentAddsShareId ==
    [][\A a, b \in Sessions : a # b =>
        /\ (pc[b] \in {"add_input", "add_write"} /\ pc'[b] # pc[b]) =>
                lastIdFile' = lastIdFile /\ add_id'[b] = add_id[b]
        /\ (/\ pc[b] = "menu" /\ pc'[b] = "add_input"
            /\ pc[a] \in AddStates /\ add_id[a] = Counter + 1) =>
                add_id'[b] = add_id[a]
        /\ (/\ pc[b] = "add_write" /\ pc'[b] = "add_save"
            /\ SubSeq(finances[b], 1, Len(finances[b]) - 1) = Rows
            /\ HasId(Rows, <<ToString(add_id[b])>>)) =>
                /\ Len(Rows') = Len(Rows) + 1
                /\ \A i \in 1..Len(Rows) : Rows'[i] = Rows[i]
                /\ Rows'[Len(Rows')].id = <<ToString(add_id[b])>>
                /\ Cardinality({i \in 1..Len(Rows') :
                        Rows'[i].id = <<ToString(add_id[b])>>}) >= 2
        /\ (pc[b] = "add_save" /\ pc'[b] = "menu") => Counter' = add_id[b]]_vars

C16_Witness ==
    /\ pc[1] = "menu" /\ pc[2] = "menu"
    /\ msg[1] = "added" /\ msg[2] = "added"
    /\ nadd = 2
    /\ Ids(Rows) = << <<"2">>, <<"2">> >>
    /\ Counter = 2

====
